---- MODULE Spec2Model ----
\* Global Assets Settlement System (src/main.py): one interactive run of the
\* settlement script, from the BCV rate fetch to the "Report saved" message,
\* with the valuation and settlement arithmetic computed as Python computes
\* it (int arithmetic exact, float arithmetic in IEEE-754 binary64).
EXTENDS Integers, Sequences, FiniteSets, TLC

VARIABLES
    pc,             \* position of the run in the script
    console,        \* lines printed to the terminal, in order
    report_file,    \* the report on disk: created / open / lines written
    bcv_rate,       \* official rate (a float) once known
    files,          \* names listed from the data directory
    typed,          \* what the last input() call returned, and at which prompt
    raised,         \* the uncaught exception that ended the run, "" if none
    choice,         \* <<n>> once the selection parsed, <<>> before
    selected_file,  \* <<name>> once a file is selected
    account_id,     \* upper-cased stem of the selected file
    df,             \* rows loaded from the selected file
    df_clean,       \* rows left by the denylist
    start_date,     \* <<timestamp>> once entered
    end_date,       \* <<timestamp>> once entered
    df_filtered,    \* rows of df_clean in the date range
    df_t1,          \* Type 1 rows, sorted by date
    df_t2,          \* Type 2 rows, sorted by date
    dates_left,     \* dates the current per-date loop has still to print
    t1_returns,     \* values returned by the per-date process_type_1 calls
    t2_returns,     \* values returned by the per-date process_type_2 calls
    totals,         \* the figures of the final calculations
    arg,            \* argument of a function applied on its own
    ret             \* its result

vars == <<pc, console, report_file, bcv_rate, files, typed, raised, choice,
          selected_file, account_id, df,
          df_clean, start_date, end_date, df_filtered, df_t1, df_t2,
          dates_left, t1_returns, t2_returns, totals, arg, ret>>

\* ---------------------------------------------------------------------
\* Python float = IEEE-754 binary64, round-to-nearest-even.  TLC's
\* integers are 32 bits wide, so a significand is kept as a little-endian
\* sequence of limbs (no leading zero limb; zero is <<>>).
\* ---------------------------------------------------------------------
LimbBits == 15
Base == 2 ^ LimbBits
MantBits == 53

RECURSIVE BigNorm(_)
BigNorm(a) ==
    IF a = <<>> THEN <<>>
    ELSE IF a[Len(a)] = 0 THEN BigNorm(SubSeq(a, 1, Len(a) - 1)) ELSE a

RECURSIVE BigFromNat(_)
BigFromNat(n) == IF n = 0 THEN <<>> ELSE <<n % Base>> \o BigFromNat(n \div Base)

RECURSIVE BigToNat(_)
BigToNat(a) == IF a = <<>> THEN 0 ELSE a[1] + Base * BigToNat(Tail(a))

RECURSIVE BigAddC(_, _, _)
BigAddC(a, b, c) ==
    IF a = <<>> /\ b = <<>> THEN (IF c = 0 THEN <<>> ELSE <<c>>)
    ELSE LET x == IF a = <<>> THEN 0 ELSE a[1]
             y == IF b = <<>> THEN 0 ELSE b[1]
             v == x + y + c
         IN  <<v % Base>> \o BigAddC(IF a = <<>> THEN <<>> ELSE Tail(a),
                                     IF b = <<>> THEN <<>> ELSE Tail(b),
                                     v \div Base)

BigAdd(a, b) == BigAddC(a, b, 0)

RECURSIVE BigSubB(_, _, _)
BigSubB(a, b, c) ==
    IF a = <<>> THEN <<>>
    ELSE LET y == IF b = <<>> THEN 0 ELSE b[1]
             v == a[1] - y - c
         IN  <<v % Base>> \o BigSubB(Tail(a),
                                     IF b = <<>> THEN <<>> ELSE Tail(b),
                                     IF v < 0 THEN 1 ELSE 0)

\* a - b for a >= b
BigSub(a, b) == BigNorm(BigSubB(a, b, 0))

RECURSIVE BigCmpAt(_, _, _)
BigCmpAt(a, b, i) ==
    IF i = 0 THEN 0
    ELSE IF a[i] < b[i] THEN -1
    ELSE IF a[i] > b[i] THEN 1
    ELSE BigCmpAt(a, b, i - 1)

\* -1, 0, 1 as a < b, a = b, a > b
BigCmp(a, b) ==
    IF Len(a) < Len(b) THEN -1
    ELSE IF Len(a) > Len(b) THEN 1
    ELSE BigCmpAt(a, b, Len(a))

RECURSIVE BigMulSmallC(_, _, _)
BigMulSmallC(a, d, c) ==
    IF a = <<>> THEN (IF c = 0 THEN <<>> ELSE <<c>>)
    ELSE LET v == a[1] * d + c
         IN  <<v % Base>> \o BigMulSmallC(Tail(a), d, v \div Base)

BigMulSmall(a, d) == IF d = 0 THEN <<>> ELSE BigMulSmallC(a, d, 0)

RECURSIVE BigMul(_, _)
BigMul(a, b) ==
    IF a = <<>> \/ b = <<>> THEN <<>>
    ELSE LET rest == BigMul(Tail(a), b)
         IN  BigAdd(BigMulSmall(b, a[1]),
                    IF rest = <<>> THEN <<>> ELSE <<0>> \o rest)

RECURSIVE Zeros(_)
Zeros(n) == IF n = 0 THEN <<>> ELSE <<0>> \o Zeros(n - 1)

BigShl(a, k) ==
    IF a = <<>> THEN <<>>
    ELSE Zeros(k \div LimbBits) \o BigMulSmall(a, 2 ^ (k % LimbBits))

RECURSIVE BigDivSmallFrom(_, _, _, _)
BigDivSmallFrom(a, i, d, r) ==
    IF i = 0 THEN <<>>
    ELSE LET cur == r * Base + a[i]
         IN  Append(BigDivSmallFrom(a, i - 1, d, cur % d), cur \div d)

BigShr(a, k) ==
    IF k \div LimbBits >= Len(a) THEN <<>>
    ELSE LET hi == SubSeq(a, (k \div LimbBits) + 1, Len(a))
         IN  BigNorm(BigDivSmallFrom(hi, Len(hi), 2 ^ (k % LimbBits), 0))

RECURSIVE NatBitLen(_)
NatBitLen(n) == IF n = 0 THEN 0 ELSE 1 + NatBitLen(n \div 2)

BigBitLen(a) ==
    IF a = <<>> THEN 0 ELSE LimbBits * (Len(a) - 1) + NatBitLen(a[Len(a)])

BigIsOdd(a) == a # <<>> /\ a[1] % 2 = 1

\* ---- binary64 values: m * 2^e with 2^52 <= m < 2^53, or zero ----------
FZero == [m |-> <<>>, e |-> 0]

IsZero(x) == x.m = <<>>

\* q * 2^e with q of MantBits or MantBits + 1 bits (a round-up may carry)
FCarry(q, e) ==
    IF BigBitLen(q) > MantBits
    THEN [m |-> BigShr(q, 1), e |-> e + 1]
    ELSE [m |-> q, e |-> e]

\* round to nearest, ties to even: c compares the bits cut off with half a
\* unit of q
FRoundsUp(c, sticky, q) == c > 0 \/ (c = 0 /\ (sticky \/ BigIsOdd(q)))

\* big = q * 2^k + (the k bits cut off)
FRoundCut(big, q, k, e, sticky) ==
    FCarry(IF FRoundsUp(BigCmp(BigSub(big, BigShl(q, k)), BigShl(<<1>>, k - 1)), sticky, q)
           THEN BigAdd(q, <<1>>)
           ELSE q,
           e + k)

FRoundBits(big, e, sticky, n) ==
    IF n = 0 THEN FZero
    ELSE IF n <= MantBits
    THEN [m |-> BigShl(big, MantBits - n), e |-> e - (MantBits - n)]
    ELSE FRoundCut(big, BigShr(big, n - MantBits), n - MantBits, e, sticky)

\* big * 2^e (plus a nonzero amount below one unit of big when sticky),
\* rounded to nearest, ties to even
FRound(big, e, sticky) == FRoundBits(big, e, sticky, BigBitLen(big))

FromInt(n) == FRound(BigFromNat(n), 0, FALSE)

FMul(x, y) ==
    IF IsZero(x) \/ IsZero(y) THEN FZero
    ELSE FRound(BigMul(x.m, y.m), x.e + y.e, FALSE)

FAlign(x, e) == BigShl(x.m, x.e - e)

Min(a, b) == IF a < b THEN a ELSE b

FAddAt(x, y, e) == FRound(BigAdd(FAlign(x, e), FAlign(y, e)), e, FALSE)

FAdd(x, y) ==
    IF IsZero(x) THEN y
    ELSE IF IsZero(y) THEN x
    ELSE FAddAt(x, y, Min(x.e, y.e))

\* -1, 0, 1 as x < y, x = y, x > y
FCmp(x, y) ==
    IF IsZero(x) THEN (IF IsZero(y) THEN 0 ELSE -1)
    ELSE IF IsZero(y) THEN 1
    ELSE BigCmp(FAlign(x, Min(x.e, y.e)), FAlign(y, Min(x.e, y.e)))

\* x - y for x >= y
FSubAt(x, y, e) == FRound(BigSub(FAlign(x, e), FAlign(y, e)), e, FALSE)

FSub(x, y) ==
    IF IsZero(y) THEN x
    ELSE FSubAt(x, y, Min(x.e, y.e))

DivBits == MantBits + 2

\* the largest digit q in lo..hi-1 with q * d <= r, given lo * d <= r < hi * d
RECURSIVE BigDigit(_, _, _, _)
BigDigit(r, d, lo, hi) ==
    IF hi - lo <= 1 THEN lo
    ELSE IF BigCmp(BigMulSmall(d, (lo + hi) \div 2), r) <= 0
    THEN BigDigit(r, d, (lo + hi) \div 2, hi)
    ELSE BigDigit(r, d, lo, (lo + hi) \div 2)

BigPutDigit(rest, digit) == [q |-> Append(rest.q, digit), r |-> rest.r]

\* schoolbook long division of the limbs n[1..i] with incoming remainder r < d
RECURSIVE BigDivFrom(_, _, _, _)
RECURSIVE BigDivStep(_, _, _, _, _)
BigDivStep(n, i, d, cur, digit) ==
    BigPutDigit(BigDivFrom(n, i - 1, d, BigSub(cur, BigMulSmall(d, digit))), digit)

BigDivLimb(n, i, d, cur) == BigDivStep(n, i, d, cur, BigDigit(cur, d, 0, Base))

BigDivFrom(n, i, d, r) ==
    IF i = 0 THEN [q |-> <<>>, r |-> r]
    ELSE BigDivLimb(n, i, d, BigNorm(<<n[i]>> \o r))

BigNormQ(qr) == [q |-> BigNorm(qr.q), r |-> qr.r]

\* quotient and remainder of n by d # 0
BigDivMod(n, d) == BigNormQ(BigDivFrom(n, Len(n), d, <<>>))

FFromQuotient(qr, e) == FRound(qr.q, e, qr.r # <<>>)

\* x / y for y # 0 (Python raises ZeroDivisionError for y = 0)
FDiv(x, y) ==
    IF IsZero(x) THEN FZero
    ELSE FFromQuotient(BigDivMod(BigShl(x.m, DivBits), y.m), x.e - y.e - DivBits)

\* big = q * 2^k + (the k bits cut off), to the nearest integer, ties to even
BigRoundCut(big, q, k) ==
    BigToNat(q)
    + (IF FRoundsUp(BigCmp(BigSub(big, BigShl(q, k)), BigShl(<<1>>, k - 1)), FALSE, q)
       THEN 1 ELSE 0)

\* big / 2^k to the nearest integer
BigRoundShr(big, k) == BigRoundCut(big, BigShr(big, k), k)

\* the integer n with n / 100 the two-decimal rendering "%.2f" of x
Fmt2(x) ==
    IF IsZero(x) THEN 0
    ELSE IF x.e >= 0 THEN BigToNat(BigShl(BigMulSmall(x.m, 100), x.e))
    ELSE BigRoundShr(BigMulSmall(x.m, 100), 0 - x.e)

\* the next binary64 value above x > 0
FSucc(x) ==
    LET m1 == BigAdd(x.m, <<1>>)
    IN  IF BigBitLen(m1) > MantBits
        THEN [m |-> BigShr(m1, 1), e |-> x.e + 1]
        ELSE [m |-> m1, e |-> x.e]

\* a Python name not yet bound to a float
Unbound == [m |-> <<>>, e |-> 1]

\* ---------------------------------------------------------------------
\* Financial constants: the float literals 0.75, 0.10 and 1.824
\* ---------------------------------------------------------------------
LIQUIDATION_RATE == FDiv(FromInt(75), FromInt(100))
SERVICE_FEE_RATE == FDiv(FromInt(10), FromInt(100))
SPREAD_FACTOR == FDiv(FromInt(1824), FromInt(1000))

\* ---------------------------------------------------------------------
\* Text typed by the operator: a sequence of one-character strings
\* ---------------------------------------------------------------------
Digits == <<"0", "1", "2", "3", "4", "5", "6", "7", "8", "9">>

IsDigit(c) == \E i \in 1..10 : Digits[i] = c

DigitVal(c) == (CHOOSE i \in 1..10 : Digits[i] = c) - 1

RECURSIVE Strip(_)
Strip(s) ==
    IF s = <<>> THEN s
    ELSE IF s[1] = " " THEN Strip(Tail(s))
    ELSE IF s[Len(s)] = " " THEN Strip(SubSeq(s, 1, Len(s) - 1))
    ELSE s

AllDigits(s) == s # <<>> /\ \A i \in 1..Len(s) : IsDigit(s[i])

RECURSIVE DigitsVal(_)
DigitsVal(s) ==
    IF s = <<>> THEN 0
    ELSE 10 * DigitsVal(SubSeq(s, 1, Len(s) - 1)) + DigitVal(s[Len(s)])

\* int(text): surrounding blanks dropped, an optional sign, then digits;
\* anything else raises ValueError
ParseInt(text) ==
    LET s    == Strip(text)
        sgn  == s # <<>> /\ s[1] \in {"+", "-"}
        body == IF sgn THEN Tail(s) ELSE s
    IN  IF AllDigits(body)
        THEN [ok |-> TRUE,
              v  |-> IF sgn /\ s[1] = "-" THEN 0 - DigitsVal(body) ELSE DigitsVal(body)]
        ELSE [ok |-> FALSE, v |-> 0]

PointAt(s) == {i \in 1..Len(s) : s[i] = "."}

\* float(text) for unsigned decimal text "ddd", "ddd.ddd", "ddd." or ".ddd":
\* the binary64 nearest the decimal; anything else raises ValueError
ParseFloat(text) ==
    LET s == Strip(text)
        p == PointAt(s)
    IN  IF p = {} THEN
            IF AllDigits(s) THEN [ok |-> TRUE, v |-> FromInt(DigitsVal(s))]
            ELSE [ok |-> FALSE, v |-> Unbound]
        ELSE IF Cardinality(p) > 1 THEN [ok |-> FALSE, v |-> Unbound]
        ELSE LET i    == CHOOSE j \in p : TRUE
                 ip   == SubSeq(s, 1, i - 1)
                 fp   == SubSeq(s, i + 1, Len(s))
                 both == ip \o fp
             IN  IF AllDigits(both)
                 THEN [ok |-> TRUE,
                       v  |-> FDiv(FromInt(DigitsVal(both)), FromInt(10 ^ Len(fp)))]
                 ELSE [ok |-> FALSE, v |-> Unbound]

\* ---------------------------------------------------------------------
\* Dates.  A timestamp counts ticks; a day has TicksPerDay of them, tick 0
\* of a day being midnight.
\* ---------------------------------------------------------------------
TicksPerDay == 2

Stamp(day, tod) == day * TicksPerDay + tod

\* Timestamp.date()
DateOf(ts) == ts \div TicksPerDay

\* pd.to_datetime(text) for text of the form YYYY-MM-DD (midnight of that
\* day), YYYY-MM-DD HH:MM (that time of day) or text that is no date
\* (raises)
to_datetime(text) ==
    IF text.form = "ymd" THEN [ok |-> TRUE, v |-> Stamp(text.day, 0)]
    ELSE IF text.form = "ymd hm" THEN [ok |-> TRUE, v |-> Stamp(text.day, text.tod)]
    ELSE [ok |-> FALSE, v |-> 0]

\* ---------------------------------------------------------------------
\* Data frames: sequences of rows [date, description, platform, amount];
\* an amount is [num |-> TRUE, v |-> n] for the int n and [num |-> FALSE,
\* v |-> 0] for a cell holding text
\* ---------------------------------------------------------------------
ignored_entries == {"Punchcard", "Weekly Badge Bonus", "Bonus Welcome Survey"}

T1 == "Digital_Assets_Type_1"

T2 == "Digital_Assets_Type_2"

\* a cleaner that misses the third denylist entry
CleanTwoEntries(frame) ==
    SelectSeq(frame, LAMBDA r : r.description \notin {"Punchcard", "Weekly Badge Bonus"})

\* df[~df.description.isin(ignored_entries)]
Clean(frame) == SelectSeq(frame, LAMBDA r : r.description \notin ignored_entries)

\* df_clean[(date >= start_date) & (date <= end_date)]
InRange(frame, s, e) == SelectSeq(frame, LAMBDA r : r.date >= s /\ r.date <= e)

RECURSIVE InsertByDate(_, _)
InsertByDate(sorted, r) ==
    IF sorted = <<>> THEN <<r>>
    ELSE IF sorted[Len(sorted)].date <= r.date THEN Append(sorted, r)
    ELSE Append(InsertByDate(SubSeq(sorted, 1, Len(sorted) - 1), r), sorted[Len(sorted)])

RECURSIVE SortByDate(_)
SortByDate(frame) ==
    IF frame = <<>> THEN <<>>
    ELSE InsertByDate(SortByDate(SubSeq(frame, 1, Len(frame) - 1)), frame[Len(frame)])

\* df_filtered[df_filtered.platform == p].copy().sort_values('date')
ByPlatform(frame, p) == SortByDate(SelectSeq(frame, LAMBDA r : r.platform = p))

RECURSIVE SortedSeq(_)
SortedSeq(S) ==
    IF S = {} THEN <<>>
    ELSE LET lo == CHOOSE x \in S : \A y \in S : x <= y
         IN  <<lo>> \o SortedSeq(S \ {lo})

get_unique_dates(target_df) ==
    IF target_df = <<>> THEN <<>>
    ELSE SortedSeq({target_df[i].date : i \in 1..Len(target_df)})

\* target_df[target_df.date == d]["amount"]
AmountsOn(frame, d) ==
    LET rows == SelectSeq(frame, LAMBDA r : r.date = d)
    IN  [i \in 1..Len(rows) |-> rows[i].amount]

Amounts(frame) == [i \in 1..Len(frame) |-> frame[i].amount]

Count(series, v) == Cardinality({i \in 1..Len(series) : series[i] = v})

RECURSIVE Distinct(_)
Distinct(series) ==
    IF series = <<>> THEN <<>>
    ELSE LET before == Distinct(SubSeq(series, 1, Len(series) - 1))
             v      == series[Len(series)]
         IN  IF \E i \in 1..Len(before) : before[i] = v THEN before
             ELSE Append(before, v)

RECURSIVE InsertByCount(_, _, _)
InsertByCount(sorted, v, series) ==
    IF sorted = <<>> THEN <<v>>
    ELSE IF Count(series, sorted[Len(sorted)]) >= Count(series, v) THEN Append(sorted, v)
    ELSE Append(InsertByCount(SubSeq(sorted, 1, Len(sorted) - 1), v, series),
                sorted[Len(sorted)])

RECURSIVE SortByCount(_, _)
SortByCount(vals, series) ==
    IF vals = <<>> THEN <<>>
    ELSE InsertByCount(SortByCount(SubSeq(vals, 1, Len(vals) - 1), series),
                       vals[Len(vals)], series)

\* unique() in place of value_counts(): every amount counted once
get_stats_unique(df_series) ==
    LET types == Distinct(df_series)
    IN  [counts |-> [i \in 1..Len(types) |-> 1], types |-> types]

\* value_counts(): the distinct amounts, most frequent first (equal counts
\* in order of first appearance)
get_stats(df_series) ==
    LET types  == SortByCount(Distinct(df_series), df_series)
        counts == [i \in 1..Len(types) |-> Count(df_series, types[i])]
    IN  [counts |-> counts, types |-> types]

\* ---------------------------------------------------------------------
\* Printed lines: [tag, txt, nums]
\* ---------------------------------------------------------------------
Line(tag, txt, nums) == [tag |-> tag, txt |-> txt, nums |-> nums]

RECURSIVE NumDigits(_)
NumDigits(n) == IF n < 10 THEN 1 ELSE 1 + NumDigits(n \div 10)

\* the number an int shows as under format code "g" (6 significant digits)
FmtG(n) ==
    IF NumDigits(n) <= 6 THEN n
    ELSE LET p  == 10 ^ (NumDigits(n) - 6)
             q  == n \div p
             r  == n % p
             up == 2 * r > p \/ (2 * r = p /\ q % 2 = 1)
         IN  (q + (IF up THEN 1 ELSE 0)) * p

\* ---------------------------------------------------------------------
\* Valuation.  Both return [ok, total, lines]: ok is FALSE when the call
\* raises (an amount that is text: format code "g" rejects it when printing,
\* int + str fails when not), lines are the print_func calls made so far.
\* ---------------------------------------------------------------------
RECURSIVE Type1Loop(_, _, _, _, _, _, _)
Type1Loop(counts, types, print_func, i, t_points, t_tasks, lines) ==
    IF i > Len(counts) \/ i > Len(types)
    THEN LET total_usd == FDiv(FromInt(t_points), FromInt(100))
         IN  [ok |-> TRUE, total |-> total_usd,
              lines |-> IF print_func
                        THEN lines \o <<Line("TOTAL TYPE 1", <<>>, <<FmtG(t_points), Fmt2(total_usd)>>),
                                        Line("TOTAL TASKS", <<>>, <<FmtG(t_tasks)>>)>>
                        ELSE lines]
    ELSE IF ~types[i].num THEN [ok |-> FALSE, total |-> Unbound, lines |-> lines]
    ELSE LET t        == types[i].v
             c        == counts[i]
             subtotal == t * c
         IN  Type1Loop(counts, types, print_func, i + 1, t_points + subtotal, t_tasks + c,
                       IF print_func
                       THEN Append(lines, Line("PTS", <<>>, <<FmtG(t), FmtG(c), FmtG(subtotal)>>))
                       ELSE lines)

\* a loop that starts at the second pair
process_type_1_from_second(counts, types, print_func) ==
    Type1Loop(counts, types, print_func, 2, 0, 0, <<>>)

process_type_1(counts, types, print_func) ==
    Type1Loop(counts, types, print_func, 1, 0, 0, <<>>)

RECURSIVE Type2Loop(_, _, _, _, _, _, _)
Type2Loop(counts, types, print_func, i, total_usd, t_tasks, lines) ==
    IF i > Len(counts) \/ i > Len(types)
    THEN [ok |-> TRUE, total |-> FromInt(total_usd),
          lines |-> IF print_func
                    THEN lines \o <<Line("TOTAL TYPE 2", <<>>, <<Fmt2(FromInt(total_usd))>>),
                                    Line("TOTAL TASKS", <<>>, <<FmtG(t_tasks)>>)>>
                    ELSE lines]
    ELSE IF ~types[i].num THEN [ok |-> FALSE, total |-> Unbound, lines |-> lines]
    ELSE LET t        == types[i].v
             c        == counts[i]
             subtotal == t * c
         IN  Type2Loop(counts, types, print_func, i + 1, total_usd + subtotal, t_tasks + c,
                       IF print_func
                       THEN Append(lines, Line("USD", <<>>, <<FmtG(t), FmtG(c), FmtG(subtotal)>>))
                       ELSE lines)

process_type_2(counts, types, print_func) ==
    Type2Loop(counts, types, print_func, 1, 0, 0, <<>>)

\* a settlement that takes the owner's share from the raw total
SettlementOwnerFromRaw(total_val_t1, total_val_t2, rate) ==
    LET total_raw_usd        == FAdd(total_val_t1, total_val_t2)
        total_usdt           == FMul(total_raw_usd, LIQUIDATION_RATE)
        comm_usdt            == FMul(total_usdt, SERVICE_FEE_RATE)
        owner_usdt           == FSub(total_raw_usd, comm_usdt)
        market_rate          == FMul(rate, SPREAD_FACTOR)
        comm_ves             == FMul(comm_usdt, market_rate)
        owner_ves            == FMul(owner_usdt, market_rate)
        comm_purchasing_usd  == FDiv(comm_ves, rate)
        owner_purchasing_usd == FDiv(owner_ves, rate)
    IN  [total_val_t1 |-> total_val_t1, total_val_t2 |-> total_val_t2,
         total_raw_usd |-> total_raw_usd, total_usdt |-> total_usdt,
         comm_usdt |-> comm_usdt, owner_usdt |-> owner_usdt,
         market_rate |-> market_rate, comm_ves |-> comm_ves, owner_ves |-> owner_ves,
         comm_purchasing_usd |-> comm_purchasing_usd,
         owner_purchasing_usd |-> owner_purchasing_usd]

\* a settlement that converts back to USD at the market rate
SettlementAtMarketRate(total_val_t1, total_val_t2, rate) ==
    LET total_raw_usd        == FAdd(total_val_t1, total_val_t2)
        total_usdt           == FMul(total_raw_usd, LIQUIDATION_RATE)
        comm_usdt            == FMul(total_usdt, SERVICE_FEE_RATE)
        owner_usdt           == FSub(total_usdt, comm_usdt)
        market_rate          == FMul(rate, SPREAD_FACTOR)
        comm_ves             == FMul(comm_usdt, market_rate)
        owner_ves            == FMul(owner_usdt, market_rate)
        comm_purchasing_usd  == FDiv(comm_ves, market_rate)
        owner_purchasing_usd == FDiv(owner_ves, market_rate)
    IN  [total_val_t1 |-> total_val_t1, total_val_t2 |-> total_val_t2,
         total_raw_usd |-> total_raw_usd, total_usdt |-> total_usdt,
         comm_usdt |-> comm_usdt, owner_usdt |-> owner_usdt,
         market_rate |-> market_rate, comm_ves |-> comm_ves, owner_ves |-> owner_ves,
         comm_purchasing_usd |-> comm_purchasing_usd,
         owner_purchasing_usd |-> owner_purchasing_usd]

\* ---------------------------------------------------------------------
\* Final calculations, for rate # 0
\* ---------------------------------------------------------------------
Settlement(total_val_t1, total_val_t2, rate) ==
    LET total_raw_usd        == FAdd(total_val_t1, total_val_t2)
        total_usdt           == FMul(total_raw_usd, LIQUIDATION_RATE)
        comm_usdt            == FMul(total_usdt, SERVICE_FEE_RATE)
        owner_usdt           == FSub(total_usdt, comm_usdt)
        market_rate          == FMul(rate, SPREAD_FACTOR)
        comm_ves             == FMul(comm_usdt, market_rate)
        owner_ves            == FMul(owner_usdt, market_rate)
        comm_purchasing_usd  == FDiv(comm_ves, rate)
        owner_purchasing_usd == FDiv(owner_ves, rate)
    IN  [total_val_t1 |-> total_val_t1, total_val_t2 |-> total_val_t2,
         total_raw_usd |-> total_raw_usd, total_usdt |-> total_usdt,
         comm_usdt |-> comm_usdt, owner_usdt |-> owner_usdt,
         market_rate |-> market_rate, comm_ves |-> comm_ves, owner_ves |-> owner_ves,
         comm_purchasing_usd |-> comm_purchasing_usd,
         owner_purchasing_usd |-> owner_purchasing_usd]

\* ---------------------------------------------------------------------
\* File names and the account id
\* ---------------------------------------------------------------------
Ext == <<".", "x", "l", "s", "x">>

\* the i-th dataset of the data directory: "a<i>.xlsx"
FileName(i) == <<"a", Digits[i + 1]>> \o Ext

StartsWith(s, pat) == Len(s) >= Len(pat) /\ SubSeq(s, 1, Len(pat)) = pat

\* str.replace(pat, "")
RECURSIVE RemoveAll(_, _)
RemoveAll(s, pat) ==
    IF s = <<>> THEN <<>>
    ELSE IF StartsWith(s, pat) THEN RemoveAll(SubSeq(s, Len(pat) + 1, Len(s)), pat)
    ELSE <<s[1]>> \o RemoveAll(Tail(s), pat)

Lower == <<"a", "l", "s", "x">>

UpperOf == <<"A", "L", "S", "X">>

UpperChar(c) ==
    IF \E i \in 1..Len(Lower) : Lower[i] = c
    THEN UpperOf[CHOOSE i \in 1..Len(Lower) : Lower[i] = c]
    ELSE c

\* str.upper()
Upper(s) == [i \in 1..Len(s) |-> UpperChar(s[i])]

\* selected_file.replace(".xlsx", "").upper()
AccountId(name) == Upper(RemoveAll(name, Ext))

\* files[i] with Python's indexing (a negative index counts from the end)
PyIndex(list, i) ==
    IF 0 <= i /\ i < Len(list) THEN [ok |-> TRUE, v |-> list[i + 1]]
    ELSE IF i < 0 /\ 0 - i <= Len(list) THEN [ok |-> TRUE, v |-> list[Len(list) + i + 1]]
    ELSE [ok |-> FALSE, v |-> <<>>]

\* ---------------------------------------------------------------------
\* The run
\* ---------------------------------------------------------------------
NoTotals == Settlement(FZero, FZero, FromInt(1))

NoReport == [created |-> FALSE, open |-> FALSE, lines |-> <<>>, name |-> <<>>]

NothingTyped == [prompt |-> "", text |-> <<>>]

Init ==
    /\ pc = "fetch"
    /\ console = <<>>
    /\ report_file = NoReport
    /\ bcv_rate = Unbound
    /\ files = <<>>
    /\ typed = NothingTyped
    /\ raised = ""
    /\ choice = <<>>
    /\ selected_file = <<>>
    /\ account_id = <<>>
    /\ df = <<>>
    /\ df_clean = <<>>
    /\ start_date = <<>>
    /\ end_date = <<>>
    /\ df_filtered = <<>>
    /\ df_t1 = <<>>
    /\ df_t2 = <<>>
    /\ dates_left = <<>>
    /\ t1_returns = <<>>
    /\ t2_returns = <<>>
    /\ totals = NoTotals
    /\ arg = <<>>
    /\ ret = <<>>

\* an uncaught exception ends the run; leaving the with block closes the file
Raise(what) ==
    /\ pc' = "error"
    /\ raised' = what

\* a smart_print that prints without writing to the file
smart_print_console_only(con, rep, texts, k) ==
    [console |-> con \o texts, report_file |-> rep, ok |-> TRUE]

\* smart_print for each text of texts in turn; with k > 0 the k-th
\* report_file.write raises (the text is already on the console)
smart_print(con, rep, texts, k) ==
    IF k = 0
    THEN [console |-> con \o texts,
          report_file |-> [rep EXCEPT !.lines = @ \o texts],
          ok |-> TRUE]
    ELSE [console |-> con \o SubSeq(texts, 1, k),
          report_file |-> [rep EXCEPT !.lines = @ \o SubSeq(texts, 1, k - 1),
                                      !.open = FALSE],
          ok |-> FALSE]

\* where a write may fail while texts are printed: nowhere (0) or at the k-th
FailAt(E, texts) == IF E.faults THEN 0..Len(texts) ELSE {0}

Closed(rep) == [rep EXCEPT !.open = FALSE]

\* lines 26-32
FetchRate(E) ==
    /\ pc = "fetch"
    /\ \E o \in E.fetch :
        LET p == ParseFloat(o.text) IN
        IF o.ok /\ p.ok
        THEN /\ bcv_rate' = p.v
             /\ console' = console \o <<Line("Connecting", <<>>, <<>>),
                                         Line("Connection successful", <<>>, <<>>)>>
             /\ pc' = "data_dir"
        ELSE /\ bcv_rate' = bcv_rate
             /\ console' = console \o <<Line("Connecting", <<>>, <<>>),
                                         Line("Automatic fetch failed", <<>>, <<>>)>>
             /\ pc' = "rate_prompt"
    /\ UNCHANGED <<report_file, files, typed, raised, choice, selected_file, account_id,
                   df, df_clean, start_date, end_date, df_filtered, df_t1, df_t2,
                   dates_left, t1_returns, t2_returns, totals, arg, ret>>

\* line 33
ManualRate(E) ==
    /\ pc = "rate_prompt"
    /\ \E text \in E.rates :
        LET p == ParseFloat(text) IN
        /\ typed' = [prompt |-> "rate", text |-> text]
        /\ IF p.ok
           THEN /\ bcv_rate' = p.v
                /\ pc' = "data_dir"
                /\ raised' = raised
           ELSE /\ bcv_rate' = bcv_rate
                /\ Raise("ValueError")
    /\ UNCHANGED <<console, report_file, files, choice, selected_file, account_id,
                   df, df_clean, start_date, end_date, df_filtered, df_t1, df_t2,
                   dates_left, t1_returns, t2_returns, totals, arg, ret>>

\* lines 74-77
CheckDataDir(E) ==
    /\ pc = "data_dir"
    /\ \E exists \in E.dir :
        IF exists
        THEN pc' = "glob" /\ console' = console
        ELSE /\ console' = Append(console, Line("Error: Data directory not found", <<>>, <<>>))
             /\ pc' = "exit"
    /\ UNCHANGED <<report_file, bcv_rate, files, typed, raised, choice, selected_file,
                   account_id, df, df_clean, start_date, end_date, df_filtered, df_t1,
                   df_t2, dates_left, t1_returns, t2_returns, totals, arg, ret>>

\* lines 79-86
ListFiles(E) ==
    /\ pc = "glob"
    /\ \E n \in E.counts :
        /\ files' = [i \in 1..n |-> FileName(i)]
        /\ IF n = 0
           THEN /\ console' = Append(console, Line("Error: No datasets found", <<>>, <<>>))
                /\ pc' = "exit"
           ELSE /\ console' = console \o <<Line("Available Accounts", <<>>, <<>>)>>
                                      \o [i \in 1..n |-> Line("item", FileName(i), <<i>>)]
                /\ pc' = "select"
    /\ UNCHANGED <<report_file, bcv_rate, typed, raised, choice, selected_file,
                   account_id, df, df_clean, start_date, end_date, df_filtered, df_t1,
                   df_t2, dates_left, t1_returns, t2_returns, totals, arg, ret>>

\* lines 88-95
SelectAccount(E) ==
    /\ pc = "select"
    /\ \E text \in E.choices :
        LET p   == ParseInt(text)
            sel == PyIndex(files, p.v - 1)
        IN
        /\ typed' = [prompt |-> "choice", text |-> text]
        /\ choice' = IF p.ok THEN <<p.v>> ELSE choice
        /\ IF p.ok /\ sel.ok
           THEN /\ selected_file' = <<sel.v>>
                /\ account_id' = AccountId(sel.v)
                /\ console' = console
                /\ pc' = "load"
           ELSE /\ UNCHANGED <<selected_file, account_id>>
                /\ console' = Append(console, Line("Invalid selection", <<>>, <<>>))
                /\ pc' = "exit"
    /\ UNCHANGED <<report_file, bcv_rate, files, raised, df, df_clean, start_date,
                   end_date, df_filtered, df_t1, df_t2, dates_left, t1_returns,
                   t2_returns, totals, arg, ret>>

\* lines 98-103: the file reads as some sheet of E.sheets, or fails to load
LoadData(E) ==
    /\ pc = "load"
    /\ \/ /\ TRUE \in E.loads
          /\ \E sheet \in E.sheets : df' = sheet
          /\ console' = console
          /\ pc' = "clean"
       \/ /\ FALSE \in E.loads
          /\ df' = df
          /\ console' = Append(console, Line("Loading error", <<>>, <<>>))
          /\ pc' = "exit"
    /\ UNCHANGED <<report_file, bcv_rate, files, typed, raised, choice, selected_file,
                   account_id, df_clean, start_date, end_date, df_filtered, df_t1,
                   df_t2, dates_left, t1_returns, t2_returns, totals, arg, ret>>

\* lines 105-106
CleanData ==
    /\ pc = "clean"
    /\ df_clean' = Clean(df)
    /\ pc' = "start_prompt"
    /\ UNCHANGED <<console, report_file, bcv_rate, files, typed, raised, choice,
                   selected_file, account_id, df, start_date, end_date, df_filtered,
                   df_t1, df_t2, dates_left, t1_returns, t2_returns, totals, arg, ret>>

\* line 108
ReadStartDate(E) ==
    /\ pc = "start_prompt"
    /\ \E text \in E.dates :
        LET p == to_datetime(text) IN
        /\ typed' = [prompt |-> "start", text |-> text]
        /\ IF p.ok
           THEN /\ start_date' = <<p.v>>
                /\ pc' = "end_prompt"
                /\ raised' = raised
           ELSE /\ start_date' = start_date
                /\ Raise("ValueError")
    /\ UNCHANGED <<console, report_file, bcv_rate, files, choice, selected_file,
                   account_id, df, df_clean, end_date, df_filtered, df_t1, df_t2,
                   dates_left, t1_returns, t2_returns, totals, arg, ret>>

\* line 109
ReadEndDate(E) ==
    /\ pc = "end_prompt"
    /\ \E text \in E.dates :
        LET p == to_datetime(text) IN
        /\ typed' = [prompt |-> "end", text |-> text]
        /\ IF p.ok
           THEN /\ end_date' = <<p.v>>
                /\ pc' = "filter"
                /\ raised' = raised
           ELSE /\ end_date' = end_date
                /\ Raise("ValueError")
    /\ UNCHANGED <<console, report_file, bcv_rate, files, choice, selected_file,
                   account_id, df, df_clean, start_date, df_filtered, df_t1, df_t2,
                   dates_left, t1_returns, t2_returns, totals, arg, ret>>

\* lines 111-113
FilterRows ==
    /\ pc = "filter"
    /\ df_filtered' = InRange(df_clean, start_date[1], end_date[1])
    /\ df_t1' = ByPlatform(df_filtered', T1)
    /\ df_t2' = ByPlatform(df_filtered', T2)
    /\ pc' = "open"
    /\ UNCHANGED <<console, report_file, bcv_rate, files, typed, raised, choice,
                   selected_file, account_id, df, df_clean, start_date, end_date,
                   dates_left, t1_returns, t2_returns, totals, arg, ret>>

\* lines 120-123: open(report_path, "w") creates (or truncates) the file
OpenReport(E) ==
    /\ pc = "open"
    /\ \E ok \in E.opens :
        IF ok
        THEN /\ report_file' = [created |-> TRUE, open |-> TRUE, lines |-> <<>>,
                                name |-> <<account_id, DateOf(start_date[1])>>]
             /\ pc' = "header"
             /\ raised' = raised
        ELSE /\ report_file' = report_file
             /\ Raise("OSError")
    /\ UNCHANGED <<console, bcv_rate, files, typed, choice, selected_file, account_id,
                   df, df_clean, start_date, end_date, df_filtered, df_t1, df_t2,
                   dates_left, t1_returns, t2_returns, totals, arg, ret>>

HeaderLines ==
    <<Line("====", <<>>, <<>>),
      Line("GLOBAL ASSETS SETTLEMENT", <<>>, <<>>),
      Line("ACCOUNT ID", account_id, <<>>),
      Line("PERIOD", <<>>, <<DateOf(start_date[1]), DateOf(end_date[1])>>),
      Line("====", <<>>, <<>>)>>

\* lines 127-131
WriteHeader(E) ==
    /\ pc = "header"
    /\ \E k \in FailAt(E, HeaderLines) :
        LET out == smart_print(console, report_file, HeaderLines, k) IN
        /\ console' = out.console
        /\ report_file' = out.report_file
        /\ IF out.ok THEN pc' = "provider_1" /\ raised' = raised ELSE Raise("OSError")
    /\ UNCHANGED <<bcv_rate, files, typed, choice, selected_file, account_id, df,
                   df_clean, start_date, end_date, df_filtered, df_t1, df_t2,
                   dates_left, t1_returns, t2_returns, totals, arg, ret>>

\* lines 133-134: the provider line, then the loop over the dates of df_t1
BeginType1(E) ==
    /\ pc = "provider_1"
    /\ \E k \in FailAt(E, <<Line("PROVIDER: TYPE 1", <<>>, <<>>)>>) :
        LET out == smart_print(console, report_file, <<Line("PROVIDER: TYPE 1", <<>>, <<>>)>>, k) IN
        /\ console' = out.console
        /\ report_file' = out.report_file
        /\ IF out.ok
           THEN /\ dates_left' = get_unique_dates(df_t1)
                /\ pc' = "dates_1"
                /\ raised' = raised
           ELSE /\ dates_left' = dates_left
                /\ Raise("OSError")
    /\ UNCHANGED <<bcv_rate, files, typed, choice, selected_file, account_id, df,
                   df_clean, start_date, end_date, df_filtered, df_t1, df_t2,
                   t1_returns, t2_returns, totals, arg, ret>>

\* the texts one pass of a per-date loop prints, and what the valuation returns
DateSection(d, val) == <<Line("DATE", <<>>, <<DateOf(d)>>)>> \o val.lines

\* lines 135-137, one date
Type1Date(E) ==
    /\ pc = "dates_1"
    /\ dates_left # <<>>
    /\ LET d     == Head(dates_left)
           st    == get_stats(AmountsOn(df_t1, d))
           val   == process_type_1(st.counts, st.types, TRUE)
           texts == DateSection(d, val)
       IN  \E k \in FailAt(E, texts) :
            LET out == smart_print(console, report_file, texts, k) IN
            /\ console' = out.console
            /\ IF out.ok /\ val.ok
               THEN /\ report_file' = out.report_file
                    /\ dates_left' = Tail(dates_left)
                    /\ t1_returns' = Append(t1_returns, val.total)
                    /\ pc' = pc
                    /\ raised' = raised
               ELSE /\ report_file' = Closed(out.report_file)
                    /\ UNCHANGED <<dates_left, t1_returns>>
                    /\ Raise(IF out.ok THEN "ValueError" ELSE "OSError")
    /\ UNCHANGED <<bcv_rate, files, typed, choice, selected_file, account_id, df,
                   df_clean, start_date, end_date, df_filtered, df_t1, df_t2,
                   t2_returns, totals, arg, ret>>

\* lines 139-140
BeginType2(E) ==
    /\ pc = "dates_1"
    /\ dates_left = <<>>
    /\ \E k \in FailAt(E, <<Line("PROVIDER: TYPE 2", <<>>, <<>>)>>) :
        LET out == smart_print(console, report_file, <<Line("PROVIDER: TYPE 2", <<>>, <<>>)>>, k) IN
        /\ console' = out.console
        /\ report_file' = out.report_file
        /\ IF out.ok
           THEN /\ dates_left' = get_unique_dates(df_t2)
                /\ pc' = "dates_2"
                /\ raised' = raised
           ELSE /\ dates_left' = dates_left
                /\ Raise("OSError")
    /\ UNCHANGED <<bcv_rate, files, typed, choice, selected_file, account_id, df,
                   df_clean, start_date, end_date, df_filtered, df_t1, df_t2,
                   t1_returns, t2_returns, totals, arg, ret>>

\* lines 141-143, one date
Type2Date(E) ==
    /\ pc = "dates_2"
    /\ dates_left # <<>>
    /\ LET d     == Head(dates_left)
           st    == get_stats(AmountsOn(df_t2, d))
           val   == process_type_2(st.counts, st.types, TRUE)
           texts == DateSection(d, val)
       IN  \E k \in FailAt(E, texts) :
            LET out == smart_print(console, report_file, texts, k) IN
            /\ console' = out.console
            /\ IF out.ok /\ val.ok
               THEN /\ report_file' = out.report_file
                    /\ dates_left' = Tail(dates_left)
                    /\ t2_returns' = Append(t2_returns, val.total)
                    /\ pc' = pc
                    /\ raised' = raised
               ELSE /\ report_file' = Closed(out.report_file)
                    /\ UNCHANGED <<dates_left, t2_returns>>
                    /\ Raise(IF out.ok THEN "ValueError" ELSE "OSError")
    /\ UNCHANGED <<bcv_rate, files, typed, choice, selected_file, account_id, df,
                   df_clean, start_date, end_date, df_filtered, df_t1, df_t2,
                   t1_returns, totals, arg, ret>>

\* total of a provider's rows in the grand-total pass (no print function)
GrandTotal1(frame) ==
    IF frame = <<>> THEN [ok |-> TRUE, total |-> FZero, lines |-> <<>>]
    ELSE LET st == get_stats(Amounts(frame))
         IN  process_type_1(st.counts, st.types, FALSE)

GrandTotal2(frame) ==
    IF frame = <<>> THEN [ok |-> TRUE, total |-> FZero, lines |-> <<>>]
    ELSE LET st == get_stats(Amounts(frame))
         IN  process_type_2(st.counts, st.types, FALSE)

\* lines 146-165: a text amount raises TypeError, a rate of 0 ZeroDivisionError
FinalCalculations ==
    /\ pc = "dates_2"
    /\ dates_left = <<>>
    /\ LET v1 == GrandTotal1(df_t1)
           v2 == GrandTotal2(df_t2)
       IN  IF ~(v1.ok /\ v2.ok)
           THEN /\ Raise("TypeError")
                /\ report_file' = Closed(report_file)
                /\ totals' = totals
           ELSE IF IsZero(bcv_rate)
           THEN /\ Raise("ZeroDivisionError")
                /\ report_file' = Closed(report_file)
                /\ totals' = totals
           ELSE /\ totals' = Settlement(v1.total, v2.total, bcv_rate)
                /\ report_file' = report_file
                /\ pc' = "summary"
                /\ raised' = raised
    /\ UNCHANGED <<console, bcv_rate, files, typed, choice, selected_file, account_id,
                   df, df_clean, start_date, end_date, df_filtered, df_t1, df_t2,
                   dates_left, t1_returns, t2_returns, arg, ret>>

SummaryLines ==
    <<Line("====", <<>>, <<>>),
      Line("FINANCIAL SUMMARY", <<>>, <<>>),
      Line("====", <<>>, <<>>),
      Line("RAW ASSETS TOTAL", <<>>, <<Fmt2(totals.total_raw_usd)>>),
      Line("LIQUIDATED (USDT)", <<>>, <<Fmt2(totals.total_usdt)>>),
      Line("MARKET RATE APPLIED", <<>>, <<Fmt2(totals.market_rate)>>),
      Line("----", <<>>, <<>>),
      Line("YOUR FEE (10%)", <<>>, <<Fmt2(totals.comm_ves), Fmt2(totals.comm_purchasing_usd)>>),
      Line("OWNER PAYOUT", <<>>, <<Fmt2(totals.owner_ves), Fmt2(totals.owner_purchasing_usd)>>),
      Line("OFFICIAL BCV RATE", <<>>, <<Fmt2(bcv_rate)>>),
      Line("==== end", <<>>, <<>>)>>

\* lines 167-177
WriteSummary(E) ==
    /\ pc = "summary"
    /\ LET texts == SummaryLines IN
       \E k \in FailAt(E, texts) :
        LET out == smart_print(console, report_file, texts, k) IN
        /\ console' = out.console
        /\ report_file' = out.report_file
        /\ IF out.ok THEN pc' = "close" /\ raised' = raised ELSE Raise("OSError")
    /\ UNCHANGED <<bcv_rate, files, typed, choice, selected_file, account_id, df,
                   df_clean, start_date, end_date, df_filtered, df_t1, df_t2,
                   dates_left, t1_returns, t2_returns, totals, arg, ret>>

\* the with block ends (the file is closed), then the print after it
ReportSaved ==
    /\ pc = "close"
    /\ report_file' = Closed(report_file)
    /\ console' = Append(console, Line("Report saved at", <<>>, <<>>))
    /\ pc' = "done"
    /\ UNCHANGED <<bcv_rate, files, typed, raised, choice, selected_file, account_id,
                   df, df_clean, start_date, end_date, df_filtered, df_t1, df_t2,
                   dates_left, t1_returns, t2_returns, totals, arg, ret>>

\* ---------------------------------------------------------------------
\* What the environment may supply
\* ---------------------------------------------------------------------
MaxFiles == 2
MaxDay == 2
MaxRows == 2

Row(date, description, platform, amount) ==
    [date |-> date, description |-> description, platform |-> platform,
     amount |-> amount]

Num(n) == [num |-> TRUE, v |-> n]

TextCell == [num |-> FALSE, v |-> 0]

Stamps == {Stamp(day, tod) : day \in 1..MaxDay, tod \in 0..(TicksPerDay - 1)}

\* all frames of at most MaxRows rows drawn from rows
RECURSIVE FramesUpTo(_, _)
FramesUpTo(rows, n) ==
    IF n = 0 THEN {<<>>}
    ELSE LET shorter == FramesUpTo(rows, n - 1)
         IN  shorter \cup {Append(f, r) : f \in {g \in shorter : Len(g) = n - 1}, r \in rows}

Ymd(day) == [form |-> "ymd", day |-> day, tod |-> 0]

YmdHm(day, tod) == [form |-> "ymd hm", day |-> day, tod |-> tod]

NoDate == [form |-> "text", day |-> 0, tod |-> 0]

\* sheets whose cells may hold text where a number is expected
SmallRows ==
    {Row(Stamp(1, 0), "Survey", p, a) : p \in {T1, T2}, a \in {Num(10), TextCell}}

\* sheets that vary dates, descriptions and platforms
DataRows ==
    {Row(d, "Survey", T1, Num(a)) : d \in Stamps, a \in {10, 20}}
    \cup {Row(d, "Survey", p, Num(10)) : d \in {Stamp(1, 0), Stamp(MaxDay, 1)},
                                          p \in {T2, "Other"}}
    \cup {Row(d, x, p, Num(20)) : d \in {Stamp(1, 0), Stamp(MaxDay, 1)},
                                   x \in ignored_entries \cup {"punchcard"},
                                   p \in {T1, T2}}

\* an interactive session: every prompt may get good and bad input, every
\* file operation may fail
Session ==
    [fetch   |-> {[ok |-> TRUE, text |-> <<"3", "6", ".", "0">>],
                  [ok |-> FALSE, text |-> <<>>]},
     rates   |-> {<<"3", "6">>, <<"0">>, <<"a", "b", "c">>, <<>>},
     dir     |-> BOOLEAN,
     counts  |-> 0..MaxFiles,
     choices |-> {<<Digits[i + 1]>> : i \in 0..(MaxFiles + 1)}
                 \cup {<<"-", Digits[i + 1]>> : i \in 1..MaxFiles}
                 \cup {<<"a">>, <<>>, <<"1", ".", "0">>, <<" ", "1">>},
     loads   |-> BOOLEAN,
     sheets  |-> FramesUpTo(SmallRows, MaxRows),
     dates   |-> {Ymd(1), NoDate},
     opens   |-> BOOLEAN,
     faults  |-> TRUE]

\* a session in which the files and the operator's entries are good and the
\* data and the date range vary
DataSession ==
    [fetch   |-> {[ok |-> TRUE, text |-> <<"3", "6", ".", "0">>],
                  [ok |-> FALSE, text |-> <<>>]},
     rates   |-> {<<"a", "b", "c">>},
     dir     |-> {TRUE},
     counts  |-> {1},
     choices |-> {<<"1">>},
     loads   |-> {TRUE},
     sheets  |-> FramesUpTo(DataRows, MaxRows),
     dates   |-> {Ymd(day) : day \in 1..MaxDay} \cup {YmdHm(MaxDay, 1), NoDate},
     opens   |-> {TRUE},
     faults  |-> FALSE]

Next ==
    \/ FetchRate(Session)
    \/ ManualRate(Session)
    \/ CheckDataDir(Session)
    \/ ListFiles(Session)
    \/ SelectAccount(Session)
    \/ LoadData(Session)
    \/ CleanData
    \/ ReadStartDate(Session)
    \/ ReadEndDate(Session)
    \/ FilterRows
    \/ OpenReport(Session)
    \/ WriteHeader(Session)
    \/ BeginType1(Session)
    \/ Type1Date(Session)
    \/ BeginType2(Session)
    \/ Type2Date(Session)
    \/ FinalCalculations
    \/ WriteSummary(Session)
    \/ ReportSaved

Spec == Init /\ [][Next]_vars

NextData ==
    \/ FetchRate(DataSession)
    \/ ManualRate(DataSession)
    \/ CheckDataDir(DataSession)
    \/ ListFiles(DataSession)
    \/ SelectAccount(DataSession)
    \/ LoadData(DataSession)
    \/ CleanData
    \/ ReadStartDate(DataSession)
    \/ ReadEndDate(DataSession)
    \/ FilterRows
    \/ OpenReport(DataSession)
    \/ WriteHeader(DataSession)
    \/ BeginType1(DataSession)
    \/ Type1Date(DataSession)
    \/ BeginType2(DataSession)
    \/ Type2Date(DataSession)
    \/ FinalCalculations
    \/ WriteSummary(DataSession)
    \/ ReportSaved

SpecData == Init /\ [][NextData]_vars

\* ---------------------------------------------------------------------
\* The valuation functions applied on their own to (count, amount) lists
\* ---------------------------------------------------------------------
MaxPairs == 2
MaxCount == 2

AmountsIn == {0, 1, 50, 99}

RECURSIVE PairLists(_)
PairLists(n) ==
    IF n = 0 THEN {[counts |-> <<>>, types |-> <<>>]}
    ELSE LET shorter == PairLists(n - 1)
         IN  shorter \cup
             {[counts |-> Append(l.counts, c), types |-> Append(l.types, Num(a))] :
                 l \in {x \in shorter : Len(x.counts) = n - 1},
                 c \in 0..MaxCount, a \in AmountsIn}

Idle ==
    /\ console = <<>>
    /\ report_file = NoReport
    /\ bcv_rate = Unbound
    /\ files = <<>>
    /\ typed = NothingTyped
    /\ raised = ""
    /\ choice = <<>>
    /\ selected_file = <<>>
    /\ account_id = <<>>
    /\ df = <<>>
    /\ df_clean = <<>>
    /\ start_date = <<>>
    /\ end_date = <<>>
    /\ df_filtered = <<>>
    /\ df_t1 = <<>>
    /\ df_t2 = <<>>
    /\ dates_left = <<>>
    /\ t1_returns = <<>>
    /\ t2_returns = <<>>
    /\ totals = NoTotals

InitValuation ==
    /\ pc = "call"
    /\ arg \in PairLists(MaxPairs)
    /\ ret = <<>>
    /\ Idle

\* process_type_1 and process_type_2, each with and without a print function
ApplyValuation ==
    /\ pc = "call"
    /\ ret' = [t1       |-> process_type_1(arg.counts, arg.types, FALSE),
               t1_print |-> process_type_1(arg.counts, arg.types, TRUE),
               t2       |-> process_type_2(arg.counts, arg.types, FALSE),
               t2_print |-> process_type_2(arg.counts, arg.types, TRUE)]
    /\ pc' = "returned"
    /\ UNCHANGED <<console, report_file, bcv_rate, files, typed, raised, choice,
                   selected_file, account_id, df, df_clean, start_date, end_date,
                   df_filtered, df_t1, df_t2, dates_left, t1_returns, t2_returns,
                   totals, arg>>

NextValuation == ApplyValuation

SpecValuation == InitValuation /\ [][NextValuation]_vars

\* ---------------------------------------------------------------------
\* The final calculations applied on their own: a Type 1 total of
\* points / 100, a Type 2 total in whole dollars, an official rate
\* ---------------------------------------------------------------------
MaxPoints == 120

Dec(n, d) == FDiv(FromInt(n), FromInt(d))

RatesIn == {FromInt(36), Dec(3625, 100), FromInt(1)}

InitSettlement ==
    /\ pc = "call"
    /\ arg \in [points : 0..MaxPoints, usd : {0, 100}, rate : RatesIn]
    /\ ret = <<>>
    /\ Idle

ApplySettlement ==
    /\ pc = "call"
    /\ ret' = Settlement(Dec(arg.points, 100), FromInt(arg.usd), arg.rate)
    /\ pc' = "returned"
    /\ UNCHANGED <<console, report_file, bcv_rate, files, typed, raised, choice,
                   selected_file, account_id, df, df_clean, start_date, end_date,
                   df_filtered, df_t1, df_t2, dates_left, t1_returns, t2_returns,
                   totals, arg>>

NextSettlement == ApplySettlement

SpecSettlement == InitSettlement /\ [][NextSettlement]_vars

\* ---------------------------------------------------------------------
\* Properties of the run
\* ---------------------------------------------------------------------
Terminated == pc \in {"done", "exit", "error"}

\* the lines of a complete report: from the header through the closing rule
\* of the FINANCIAL SUMMARY block
IsCompleteReport(lines) ==
    /\ Len(lines) >= Len(HeaderLines) + Len(SummaryLines)
    /\ SubSeq(lines, 1, Len(HeaderLines)) = HeaderLines
    /\ \E i \in 1..Len(lines) : lines[i].tag = "FINANCIAL SUMMARY"
    /\ lines[Len(lines)].tag = "==== end"

\* C1: in every run that has terminated without a file operation failing,
\* the report file either was not created or holds the complete report,
\* header through FINANCIAL SUMMARY (all-or-nothing report production)
C1_AllOrNothing ==
    (Terminated /\ raised # "OSError")
        => (~report_file.created \/ IsCompleteReport(report_file.lines))

\* the operator has answered the account prompt
SelectionEntered == typed.prompt \in {"choice", "start", "end"}

\* C2: once a selection that is not an integer in 1..N has been entered, the
\* run has printed the invalid-selection message and exited, no file is
\* selected or loaded and no report exists
C2_InvalidSelectionExits ==
    (SelectionEntered /\ (choice = <<>> \/ choice[1] \notin 1..Len(files)))
        => /\ pc = "exit"
           /\ console[Len(console)].tag = "Invalid selection"
           /\ selected_file = <<>>
           /\ df = <<>>
           /\ ~report_file.created

\* C3: after an entry that does not parse at the manual-rate, start-date or
\* end-date prompt, the run has not terminated and is still at that prompt
C3_PromptsBlock ==
    /\ (typed.prompt = "rate" /\ ~ParseFloat(typed.text).ok) => pc = "rate_prompt"
    /\ (typed.prompt = "start" /\ ~to_datetime(typed.text).ok) => pc = "start_prompt"
    /\ (typed.prompt = "end" /\ ~to_datetime(typed.text).ok) => pc = "end_prompt"

\* the tags of the lines the program prints with print, not smart_print
PlainPrinted ==
    {"Connecting", "Connection successful", "Automatic fetch failed",
     "Error: Data directory not found", "Error: No datasets found",
     "Available Accounts", "item", "Invalid selection", "Loading error",
     "Report saved at"}

IsPrefix(s, t) == Len(s) <= Len(t) /\ s = SubSeq(t, 1, Len(s))

\* C9 as stated: at the end of a completed run the file's line sequence
\* equals the console's line sequence
C9_FileEqualsConsole == pc = "done" => report_file.lines = console

SmartPrinted(con) == SelectSeq(con, LAMBDA l : l.tag \notin PlainPrinted)

\* C9: the report file holds, in order, the console lines from the header on
\* except the closing "Report saved" line; the fetch messages, the account
\* list and the error messages reach the console only; the file is open only
\* between the header and the end of the summary
C9_FileMirrorsSmartPrint ==
    /\ IsPrefix(report_file.lines, SmartPrinted(console))
    /\ Len(SmartPrinted(console)) <= Len(report_file.lines) + 1
    /\ pc = "done" => /\ report_file.lines = SmartPrinted(console)
                      /\ console[1].tag = "Connecting"
                      /\ console[Len(console)].tag = "Report saved at"
    /\ report_file.open
         => pc \in {"header", "provider_1", "dates_1", "dates_2", "summary", "close"}
    /\ pc = "done" => ~report_file.open

C9_Witness ==
    /\ pc = "done"
    /\ Len(report_file.lines) > Len(HeaderLines) + Len(SummaryLines) + 2
    /\ Len(console) > Len(report_file.lines)

\* ---------------------------------------------------------------------
\* Properties of the data path
\* ---------------------------------------------------------------------
Occurs(frame, r) == \E j \in 1..Len(frame) : frame[j] = r

\* the rows have been filtered by the date range
Filtered == start_date # <<>> /\ end_date # <<>> /\ pc # "filter"

AtMidnight(ts) == ts = Stamp(DateOf(ts), 0)

\* C7: with a range entered as two calendar days, every cleaned row dated on
\* a day from the start day to the end day, whatever its time of day, is in
\* the filtered set
C7_EndDayIncluded ==
    (Filtered /\ AtMidnight(start_date[1]) /\ AtMidnight(end_date[1]))
        => \A i \in 1..Len(df_clean) :
              (DateOf(start_date[1]) <= DateOf(df_clean[i].date)
                  /\ DateOf(df_clean[i].date) <= DateOf(end_date[1]))
              => Occurs(df_filtered, df_clean[i])

Denylisted(r) ==
    r.description = "Punchcard" \/ r.description = "Weekly Badge Bonus"
        \/ r.description = "Bonus Welcome Survey"

RECURSIVE SumAmounts(_, _, _)
\* the sum of the amounts of the rows of frame from row i on that are not
\* denylisted, are on platform p and satisfy the date test
SumAmounts(frame, p, i) ==
    IF i > Len(frame) THEN 0
    ELSE (IF ~Denylisted(frame[i]) /\ frame[i].platform = p
             /\ frame[i].date >= start_date[1] /\ frame[i].date <= end_date[1]
          THEN frame[i].amount.v ELSE 0)
         + SumAmounts(frame, p, i + 1)

RECURSIVE SumLines(_, _, _, _)
\* the sum of the k-th number of the lines tagged tag, from line i on
SumLines(lines, tag, k, i) ==
    IF i > Len(lines) THEN 0
    ELSE (IF lines[i].tag = tag THEN lines[i].nums[k] ELSE 0)
         + SumLines(lines, tag, k, i + 1)

Summed == pc \in {"summary", "close", "done"}

\* C8: no row whose description is one of the three denylist strings reaches
\* the cleaned, filtered or per-provider frames, the per-date (amount, count)
\* lines, the provider totals or the raw total; every other row of the sheet
\* is still in the cleaned frame
C8_DenylistExcluded ==
    /\ \A f \in {df_clean, df_filtered, df_t1, df_t2} :
          \A i \in 1..Len(f) : ~Denylisted(f[i])
    /\ pc # "clean" =>
          \A i \in 1..Len(df) : ~Denylisted(df[i]) => Occurs(df_clean, df[i])
    /\ pc # "clean" =>
          Len(df_clean) = Cardinality({i \in 1..Len(df) : ~Denylisted(df[i])})
    /\ Summed =>
          /\ SumLines(report_file.lines, "PTS", 3, 1) = SumAmounts(df, T1, 1)
          /\ SumLines(report_file.lines, "USD", 3, 1) = SumAmounts(df, T2, 1)
          /\ totals.total_val_t1 = Dec(SumAmounts(df, T1, 1), 100)
          /\ totals.total_val_t2 = FromInt(SumAmounts(df, T2, 1))
          /\ totals.total_raw_usd
               = FAdd(Dec(SumAmounts(df, T1, 1), 100), FromInt(SumAmounts(df, T2, 1)))

\* a run that summed a sheet holding a denylisted row within the range next
\* to a row that counts
C8_Witness ==
    /\ pc = "done"
    /\ \E i \in 1..Len(df) :
          /\ Denylisted(df[i])
          /\ df[i].platform = T1
          /\ df[i].date >= start_date[1] /\ df[i].date <= end_date[1]
    /\ SumAmounts(df, T1, 1) > 0

RECURSIVE FSum(_, _)
\* sum(returns): the floats added from the left, starting from 0
FSum(returns, n) ==
    IF n = 0 THEN FZero ELSE FAdd(FSum(returns, n - 1), returns[n])

\* C10 as stated: each provider's total equals the sum of the per-date
\* totals of its section
C10_TotalIsSumOfDates ==
    Summed => /\ totals.total_val_t1 = FSum(t1_returns, Len(t1_returns))
              /\ totals.total_val_t2 = FSum(t2_returns, Len(t2_returns))

\* C10: the Type 2 total is the sum of the per-date Type 2 totals; the Type 1
\* total is (the sum of the per-date point totals) / 100, and it and the sum
\* of the per-date Type 1 totals print the same figure to two decimals, the
\* sum of the printed per-date figures; a provider without rows contributes 0
C10_ReportAddsUp ==
    Summed =>
        /\ totals.total_val_t2 = FSum(t2_returns, Len(t2_returns))
        /\ totals.total_val_t1
             = Dec(SumLines(report_file.lines, "TOTAL TYPE 1", 1, 1), 100)
        /\ Fmt2(totals.total_val_t1)
             = SumLines(report_file.lines, "TOTAL TYPE 1", 2, 1)
        /\ Fmt2(FSum(t1_returns, Len(t1_returns))) = Fmt2(totals.total_val_t1)
        /\ Fmt2(totals.total_val_t2)
             = SumLines(report_file.lines, "TOTAL TYPE 2", 1, 1)
        /\ df_t1 = <<>> => totals.total_val_t1 = FZero
        /\ df_t2 = <<>> => totals.total_val_t2 = FZero

\* a run whose Type 1 section has two dates whose totals do not add up in
\* binary floating point
C10_Witness ==
    /\ pc = "done"
    /\ Len(t1_returns) >= 2
    /\ totals.total_val_t1 # FSum(t1_returns, Len(t1_returns))

\* ---------------------------------------------------------------------
\* Properties of the valuation functions
\* ---------------------------------------------------------------------
RECURSIVE SumProducts(_, _, _)
\* the sum of amount * count over the pairs i..1
SumProducts(counts, types, i) ==
    IF i = 0 THEN 0
    ELSE SumProducts(counts, types, i - 1) + types[i].v * counts[i]

\* C5: for every list of (amount, count) pairs, process_type_1 returns
\* (sum of amount * count) / 100 and process_type_2 returns the sum of
\* amount * count, with and without a print function
C5_ValuationTotals ==
    pc = "returned" =>
        LET s == SumProducts(arg.counts, arg.types, Len(arg.counts)) IN
        /\ ret.t1.ok /\ ret.t1_print.ok /\ ret.t2.ok /\ ret.t2_print.ok
        /\ ret.t1.total = Dec(s, 100)
        /\ ret.t1_print.total = Dec(s, 100)
        /\ ret.t2.total = FromInt(s)
        /\ ret.t2_print.total = FromInt(s)

C5_Witness ==
    /\ pc = "returned"
    /\ Len(arg.counts) = MaxPairs
    /\ \A i \in 1..Len(arg.counts) : arg.counts[i] * arg.types[i].v > 0
    /\ Len(ret.t1_print.lines) = MaxPairs + 2
    /\ ret.t1.lines = <<>>

\* ---------------------------------------------------------------------
\* Properties of the final calculations
\* ---------------------------------------------------------------------
\* C4 as stated: commission plus owner payout equals the liquidated amount
C4_ExactPartition ==
    pc = "returned" => FAdd(ret.comm_usdt, ret.owner_usdt) = ret.total_usdt

\* x and y are the same double or adjacent doubles
FNear(x, y) ==
    \/ x = y
    \/ ~IsZero(x) /\ FSucc(x) = y
    \/ ~IsZero(y) /\ FSucc(y) = x

\* C4: commission plus owner payout, added in binary floating point, is the
\* liquidated amount or a double next to it, and neither part exceeds the
\* liquidated amount
C4_PartitionWithinOneUlp ==
    pc = "returned" =>
        /\ FNear(FAdd(ret.comm_usdt, ret.owner_usdt), ret.total_usdt)
        /\ FCmp(ret.comm_usdt, ret.total_usdt) <= 0
        /\ FCmp(ret.owner_usdt, ret.total_usdt) <= 0

\* a settlement whose fee and payout do not add up to the liquidated amount
\* exactly
C4_Witness ==
    /\ pc = "returned"
    /\ FAdd(ret.comm_usdt, ret.owner_usdt) # ret.total_usdt
    /\ FNear(FAdd(ret.comm_usdt, ret.owner_usdt), ret.total_usdt)

\* raw_total = 100 and official_rate = 36.0
Scenario ==
    /\ pc = "returned"
    /\ arg.points = 0 /\ arg.usd = 100
    /\ arg.rate = FromInt(36)

\* C6 as stated: the scenario yields exactly the eight decimal figures
C6_ScenarioExact ==
    Scenario =>
        /\ ret.total_usdt = FromInt(75)
        /\ ret.comm_usdt = Dec(75, 10)
        /\ ret.owner_usdt = Dec(675, 10)
        /\ ret.market_rate = Dec(65664, 1000)
        /\ ret.comm_ves = Dec(49248, 100)
        /\ ret.owner_ves = Dec(443232, 100)
        /\ ret.comm_purchasing_usd = Dec(1368, 100)
        /\ ret.owner_purchasing_usd = Dec(12312, 100)

\* C6: the scenario yields the doubles nearest to 75, 7.5, 67.5, 65.664,
\* 492.48, 4432.32 and 13.68 and, for the owner's USD equivalent, the double
\* just below the one nearest to 123.12; to two decimals the figures print
\* as 75.00, 7.50, 67.50, 65.66, 492.48, 4432.32, 13.68 and 123.12
C6_ScenarioFigures ==
    Scenario =>
        /\ ret.total_raw_usd = FromInt(100)
        /\ ret.total_usdt = FromInt(75)
        /\ ret.comm_usdt = Dec(75, 10)
        /\ ret.owner_usdt = Dec(675, 10)
        /\ ret.market_rate = Dec(65664, 1000)
        /\ ret.comm_ves = Dec(49248, 100)
        /\ ret.owner_ves = Dec(443232, 100)
        /\ ret.comm_purchasing_usd = Dec(1368, 100)
        /\ FSucc(ret.owner_purchasing_usd) = Dec(12312, 100)
        /\ Fmt2(ret.total_usdt) = 7500
        /\ Fmt2(ret.comm_usdt) = 750
        /\ Fmt2(ret.owner_usdt) = 6750
        /\ Fmt2(ret.market_rate) = 6566
        /\ Fmt2(ret.comm_ves) = 49248
        /\ Fmt2(ret.owner_ves) = 443232
        /\ Fmt2(ret.comm_purchasing_usd) = 1368
        /\ Fmt2(ret.owner_purchasing_usd) = 12312

C6_Witness == Scenario /\ ret.owner_purchasing_usd # Dec(12312, 100)
====
